---- MODULE Spec2Model ----
(***************************************************************************)
(* The ClusterWorkspaceShard controller of kcp                             *)
(* (package clusterworkspaceshard): informer notifications feed a          *)
(* rate-limited work queue, NumThreads workers drain it, and each pass     *)
(* reads the shard from the lister, stamps the shard label on a deep copy  *)
(* and commits the difference with a JSON merge patch.                     *)
(***************************************************************************)
EXTENDS Integers, Sequences, FiniteSets, TLC

\* ------------------------------------------------------------------ bounds
MaxWrites == 2       \* writes by other clients of the API server
MaxErrors == 2       \* injected failures (lister, Patch transport, panic)
MaxFailures == 19    \* consecutive failures of a key when the rate limiter
                     \* is driven on its own

Names == {"s1"}                  \* the ClusterWorkspaceShard objects
Workers == {"w1", "w2"}          \* Start(ctx, 2)
Statuses == {"", "ready"}        \* "" is the zero ClusterWorkspaceShardStatus
ShardLabel == "tenancy.kcp.dev/shard"
Null == "<null>"                 \* JSON null inside a merge patch

VARIABLES
  q,          \* the rate limiting work queue
  store,      \* the API server's objects, by name
  cache,      \* the informer's indexer, read through the lister
  cancelled,  \* ctx.Done() is closed
  pc,         \* each worker's position in processNextWorkItem
  wkey,       \* the key a worker got from the queue
  prev,       \* process: the snapshot read from the lister (previous)
  req,        \* process: the Patch call about to be sent
  res,        \* what process returned: (requeue, err)
  npatch,     \* Patch calls made in the worker's pass so far
  ops,        \* queue calls made by the worker in its pass so far
  late,       \* Add calls accepted for a key while it is being processed
  noted,      \* a notification added the key while it was being processed
  raced,      \* another client wrote the object after the worker read its
              \* snapshot and before its Patch
  since,      \* per object: "committed" after a pass whose Patch was
              \* applied, "next" while the pass after it runs, else "none"
  calls,      \* process: what the lister answered and how often reconcile
              \* was called in the worker's pass so far
  reported,   \* enqueue: the notified objects reported to
              \* runtime.HandleError for want of a key
  writes,     \* writes made by other clients so far
  errors      \* failures injected so far (lister, Patch transport or
              \* cancellation, panic)

vars == <<q, store, cache, cancelled, pc, wkey, prev, req, res, npatch, ops,
          late, noted, raced, since, calls, reported, writes, errors>>

\* ------------------------------------------------------------------ objects
NoObj == [exists |-> FALSE]
NoKey == <<"", "">>
NoReq == [sent |-> FALSE]
NoRes == [requeue |-> FALSE, err |-> "unset"]
NoCalls == [lister |-> "unread", reconcile |-> 0]

NilLabels == [nil |-> TRUE, kv |-> <<>>]
MkLabels(f) == [nil |-> FALSE, kv |-> f]
OneLabel(k, v) == MkLabels([x \in {k} |-> v])

Obj(n, rv, labels, status) ==
  [exists |-> TRUE, name |-> n, uid |-> n, rv |-> rv, labels |-> labels,
   status |-> status]

\* A key is a string; the model keeps it as the sequence of its segments
\* between the "/" separators, which is all that the code looks at.
SlashName == "a/b"               \* a name that holds a separator
Segments(n) == IF n = SlashName THEN <<"a", "b">> ELSE <<n>>

\* kcpcache.MetaClusterNamespaceKeyFunc: "namespace/name", or "name" alone
\* for an object without namespace (the cluster prefix is left out: it is
\* the same for all objects here).
MetaClusterNamespaceKeyFunc(ns, n) ==
  (IF ns = "" THEN <<>> ELSE <<ns>>) \o Segments(n)

\* cache.SplitMetaNamespaceKey: one segment is a name, two are namespace
\* and name, anything else is an error.
SplitMetaNamespaceKey(key) ==
  CASE Len(key) = 1 -> [namespace |-> "", name |-> key[1], err |-> FALSE]
    [] Len(key) = 2 -> [namespace |-> key[1], name |-> key[2], err |-> FALSE]
    [] OTHER -> [namespace |-> "", name |-> "", err |-> TRUE]

\* The keys of the ClusterWorkspaceShard objects.
Keys == {MetaClusterNamespaceKeyFunc("", n) : n \in Names}

\* Notified objects that are not well-formed ClusterWorkspaceShards: one
\* without object metadata, one with a namespace, and one whose key does
\* not split.
MalformedObjects ==
  {[meta |-> FALSE, namespace |-> "", name |-> ""],
   [meta |-> TRUE, namespace |-> "ns", name |-> "s1"],
   [meta |-> TRUE, namespace |-> "ns", name |-> SlashName]}

\* Every key that can reach the queue.
AllKeys ==
  Keys \cup {MetaClusterNamespaceKeyFunc(o.namespace, o.name) :
               o \in {m \in MalformedObjects : m.meta}}

\* equality.Semantic.DeepEqual on label maps: nil and empty are equal.
LabelsEqual(a, b) == a.kv = b.kv


\* ------------------------------------------------- the rate limiting queue
\* workqueue.NewNamedRateLimitingQueue(DefaultControllerRateLimiter(), ...):
\* queue is the delivery order, dirty the keys that need processing,
\* processing the keys handed to a worker and not yet Done, failures the
\* rate limiter's per-key retry count, waiting the delayed re-adds, delay
\* the delay (in ms) the rate limiter gave the latest pending re-add of a
\* key.
NewQueue ==
  [queue |-> <<>>, dirty |-> {}, processing |-> {},
   failures |-> [k \in AllKeys |-> 0], waiting |-> {},
   delay |-> [k \in AllKeys |-> 0], shuttingDown |-> FALSE]

\* The exponential backoff policy: the base delay doubled per consecutive
\* failure, capped at the maximum delay (in ms).
BaseDelay == 5
MaxDelay == 1000000
ItemBackoff(n) ==
  IF BaseDelay * 2^n > MaxDelay THEN MaxDelay ELSE BaseDelay * 2^n

InQueue(qq, k) == \E i \in 1..Len(qq.queue) : qq.queue[i] = k
Count(sq, k) == Cardinality({i \in 1..Len(sq) : sq[i] = k})

\* Mutant of QAdd: the dirty set is not consulted.
QAddNoDedup(qq, k) ==
  IF qq.shuttingDown THEN qq
  ELSE [qq EXCEPT !.dirty = @ \cup {k},
                  !.queue = IF k \in qq.processing THEN @ ELSE Append(@, k)]

\* Add(key): idempotent; a key in processing is only marked for redelivery.
QAdd(qq, k) ==
  IF qq.shuttingDown \/ k \in qq.dirty THEN qq
  ELSE [qq EXCEPT !.dirty = @ \cup {k},
                  !.queue = IF k \in qq.processing THEN @ ELSE Append(@, k)]

\* Get(): the head of the queue, marked in processing.
QCanGet(qq) == ~qq.shuttingDown /\ Len(qq.queue) > 0
QGetKey(qq) == Head(qq.queue)
QGet(qq) ==
  [qq EXCEPT !.queue = Tail(@),
             !.processing = @ \cup {Head(qq.queue)},
             !.dirty = @ \ {Head(qq.queue)}]
\* Get() returns shutdown=true once the queue is shut down.
QGetShutdown(qq) == qq.shuttingDown

\* Done(key): clears the in-processing mark; a key re-added in flight
\* becomes eligible again.
QDone(qq, k) ==
  [qq EXCEPT !.processing = @ \ {k},
             !.queue = IF k \in qq.dirty /\ k \in qq.processing
                       THEN Append(@, k) ELSE @]

\* Forget(key): clears the key's retry count.
QForget(qq, k) == [qq EXCEPT !.failures[k] = 0]

\* Mutant of QAddRateLimited: the delay follows the largest failure count
\* of all keys.
QAddRateLimitedGlobal(qq, k) ==
  LET most == CHOOSE m \in {qq.failures[j] : j \in AllKeys} :
                \A j \in AllKeys : qq.failures[j] <= m
  IN [qq EXCEPT !.failures[k] = @ + 1,
                !.delay[k] = IF qq.shuttingDown THEN @ ELSE ItemBackoff(most),
                !.waiting = IF qq.shuttingDown THEN @ ELSE @ \cup {k}]

\* AddRateLimited(key): asks the rate limiter for the key's delay, which
\* counts the failure, and schedules a delayed Add.
QAddRateLimited(qq, k) ==
  [qq EXCEPT !.failures[k] = @ + 1,
             !.delay[k] = IF qq.shuttingDown THEN @
                          ELSE ItemBackoff(qq.failures[k]),
             !.waiting = IF qq.shuttingDown THEN @ ELSE @ \cup {k}]

\* The delay of a waiting key has passed: it is added.
QTimer(qq, k) ==
  QAdd([qq EXCEPT !.waiting = @ \ {k}, !.delay[k] = 0], k)

\* ShutDown()
QShutDown(qq) == [qq EXCEPT !.shuttingDown = TRUE]

\* An Add call that reaches the queue while the key is being processed
\* (0, 1, or 2 for "several").
LateAfterAdd(qq, lt, k) ==
  IF k \in qq.processing /\ ~qq.shuttingDown
  THEN [lt EXCEPT ![k] = IF @ < 2 THEN @ + 1 ELSE 2]
  ELSE lt

\* ------------------------------------------------- JSON and the merge patch
Present(v) == [del |-> FALSE, v |-> v]
Deleted == [del |-> TRUE]

\* json.Marshal of a ClusterWorkspaceShard holding ObjectMeta{UID,
\* ResourceVersion, Labels} and Status: labels is omitempty.
Marshal(uid, rv, labels, status) ==
  LET fields == {"uid", "resourceVersion", "status"} \cup
                (IF DOMAIN labels.kv = {} THEN {} ELSE {"labels"})
  IN [f \in fields |->
        CASE f = "uid" -> uid
          [] f = "resourceVersion" -> rv
          [] f = "labels" -> labels.kv
          [] OTHER -> status]

\* The merge patch of two string maps: changed or new entries, null for
\* removed ones.
DiffMap(old, new) ==
  LET ks == {k \in DOMAIN new : k \notin DOMAIN old \/ old[k] # new[k]}
            \cup (DOMAIN old \ DOMAIN new)
  IN [k \in ks |-> IF k \in DOMAIN new THEN new[k] ELSE Null]

\* jsonpatch.CreateMergePatch(oldData, newData): only what differs.
CreateMergePatch(old, new) ==
  LET fs == {f \in DOMAIN new : f \notin DOMAIN old \/ old[f] # new[f]}
            \cup (DOMAIN old \ DOMAIN new)
  IN [f \in fs |->
        IF f \notin DOMAIN new THEN Deleted
        ELSE IF f = "labels" /\ f \in DOMAIN old
             THEN Present(DiffMap(old[f], new[f]))
             ELSE Present(new[f])]

\* ------------------------------------------------- the API server
\* Applying a merge patch of labels to the stored labels.
MergeLabels(labels, p) ==
  LET keep == {k \in DOMAIN labels.kv : k \notin DOMAIN p \/ p[k] # Null}
      add == {k \in DOMAIN p : p[k] # Null}
  IN MkLabels([k \in keep \cup add |->
                 IF k \in add THEN p[k] ELSE labels.kv[k]])

\* The preconditions a patch carries are checked against the stored object.
PatchConflicts(o, patch) ==
  \/ "resourceVersion" \in DOMAIN patch
     /\ (patch["resourceVersion"].del \/ patch["resourceVersion"].v # o.rv)
  \/ "uid" \in DOMAIN patch
     /\ (patch["uid"].del \/ patch["uid"].v # o.uid)

\* The stored object after the patch: the status subresource takes the
\* status only, the main resource everything but the status.
PatchApply(o, patch, sub) ==
  LET labels == IF sub = "" /\ "labels" \in DOMAIN patch
                THEN IF patch["labels"].del THEN NilLabels
                     ELSE MergeLabels(o.labels, patch["labels"].v)
                ELSE o.labels
      status == IF sub = "status" /\ "status" \in DOMAIN patch
                   /\ ~patch["status"].del
                THEN patch["status"].v ELSE o.status
      changed == labels # o.labels \/ status # o.status
  IN [o EXCEPT !.labels = labels, !.status = status,
               !.rv = IF changed THEN @ + 1 ELSE @]

\* ------------------------------------------------- the controller
\* Mutant of reconcile: the label is stamped with a fixed value instead of
\* the object's name.
reconcileStampsFixed(o) ==
  LET kv == o.labels.kv
  IN [o EXCEPT !.labels =
        MkLabels([k \in DOMAIN kv \cup {ShardLabel} |->
                    IF k = ShardLabel THEN "shard" ELSE kv[k]])]

\* reconcile: stamps the shard label with the object's name.
reconcile(o) ==
  LET kv == o.labels.kv
  IN [o EXCEPT !.labels =
        MkLabels([k \in DOMAIN kv \cup {ShardLabel} |->
                    IF k = ShardLabel THEN o.name ELSE kv[k]])]

\* process, the status commit: both documents carry previous' UID and
\* ResourceVersion, and the patch is their difference.
StatusPatch(previous, obj) ==
  CreateMergePatch(
    Marshal(previous.uid, previous.rv, NilLabels, previous.status),
    Marshal(previous.uid, previous.rv, NilLabels, obj.status))

\* process, the labels commit.
LabelsPatch(previous, obj) ==
  CreateMergePatch(
    Marshal(previous.uid, previous.rv, previous.labels, ""),
    Marshal(previous.uid, previous.rv, obj.labels, ""))

\* Mutant of CommitPlan: the labels are compared before the status.
CommitPlanLabelsFirst(previous, obj) ==
  IF previous.labels.nil \/ ~LabelsEqual(previous.labels, obj.labels)
  THEN [sent |-> TRUE, name |-> obj.name, sub |-> "",
        patch |-> LabelsPatch(previous, obj)]
  ELSE IF previous.status # obj.status
  THEN [sent |-> TRUE, name |-> obj.name, sub |-> "status",
        patch |-> StatusPatch(previous, obj)]
  ELSE NoReq

\* Mutant of CommitPlan: the labels are patched without being compared.
CommitPlanNoCompare(previous, obj) ==
  IF previous.status # obj.status
  THEN [sent |-> TRUE, name |-> obj.name, sub |-> "status",
        patch |-> StatusPatch(previous, obj)]
  ELSE [sent |-> TRUE, name |-> obj.name, sub |-> "",
        patch |-> LabelsPatch(previous, obj)]

\* Mutant of CommitPlan: the nil test of the labels is inverted.
CommitPlanNilFlipped(previous, obj) ==
  IF previous.status # obj.status
  THEN [sent |-> TRUE, name |-> obj.name, sub |-> "status",
        patch |-> StatusPatch(previous, obj)]
  ELSE IF ~previous.labels.nil \/ ~LabelsEqual(previous.labels, obj.labels)
  THEN [sent |-> TRUE, name |-> obj.name, sub |-> "",
        patch |-> LabelsPatch(previous, obj)]
  ELSE NoReq

\* process after reconcile: the Patch call to make, if any. The status is
\* compared first; the labels only when the status is equal.
CommitPlan(previous, obj) ==
  IF previous.status # obj.status
  THEN [sent |-> TRUE, name |-> obj.name, sub |-> "status",
        patch |-> StatusPatch(previous, obj)]
  ELSE IF previous.labels.nil \/ ~LabelsEqual(previous.labels, obj.labels)
  THEN [sent |-> TRUE, name |-> obj.name, sub |-> "",
        patch |-> LabelsPatch(previous, obj)]
  ELSE NoReq

\* Mutant of enqueue: an object whose key cannot be extracted is queued
\* under the key of its name.
enqueueAnyway(meta, ns, n) ==
  LET key == IF meta THEN MetaClusterNamespaceKeyFunc(ns, n) ELSE <<"s1">>
  IN /\ q' = QAdd(q, key)
     /\ reported' = IF meta THEN reported
                    ELSE reported \cup
                           {[meta |-> meta, namespace |-> ns, name |-> n]}
     /\ late' = LateAfterAdd(q, late, key)
     /\ noted' = IF key \in q.processing /\ ~q.shuttingDown
                 THEN [noted EXCEPT ![key] = TRUE] ELSE noted

\* enqueue: the key of the notified object is added to the queue; an object
\* that has no key (meta says whether it carries object metadata) is
\* reported to runtime.HandleError and dropped.
enqueue(meta, ns, n) ==
  IF ~meta
  THEN /\ reported' = reported \cup
                        {[meta |-> meta, namespace |-> ns, name |-> n]}
       /\ UNCHANGED <<q, late, noted>>
  ELSE LET key == MetaClusterNamespaceKeyFunc(ns, n)
       IN /\ q' = QAdd(q, key)
          /\ late' = LateAfterAdd(q, late, key)
          /\ noted' = IF key \in q.processing /\ ~q.shuttingDown
                      THEN [noted EXCEPT ![key] = TRUE] ELSE noted
          /\ UNCHANGED reported

\* The informer delivers an add or update notification (a resync is an
\* update with the same object): the indexer holds the object before the
\* handler runs.
Notify(n) ==
  /\ store[n].exists
  /\ cache' = [cache EXCEPT ![n] = store[n]]
  /\ enqueue(TRUE, "", n)
  /\ UNCHANGED <<calls, store, cancelled, pc, wkey, prev, req, res, npatch, ops,
                 raced, since, writes, errors>>

\* The informer delivers a notification about an object that is not a
\* well-formed ClusterWorkspaceShard.
NotifyMalformed(o) ==
  /\ enqueue(o.meta, o.namespace, o.name)
  /\ UNCHANGED <<calls, store, cache, cancelled, pc, wkey, prev, req, res,
                 npatch, ops, raced, since, writes, errors>>

\* Another client of the API server changes the status or the labels.
ExternalWrite(n) ==
  /\ writes < MaxWrites
  /\ store[n].exists
  /\ \E st \in Statuses, lb \in {NilLabels, OneLabel(ShardLabel, "x")} :
       /\ (st # store[n].status) # (lb # store[n].labels)
       /\ store' = [store EXCEPT ![n] =
                      [@ EXCEPT !.status = st, !.labels =
                         IF st # store[n].status THEN @ ELSE lb,
                         !.rv = @ + 1]]
  /\ writes' = writes + 1
  /\ since' = [since EXCEPT ![n] = "none"]
  /\ raced' = [w \in Workers |->
                raced[w] \/ (pc[w] = "patch" /\ req[w].name = n)]
  /\ UNCHANGED <<calls, reported, q, cache, cancelled, pc, wkey, prev, req, res, npatch, ops,
                 late, noted, errors>>

\* Another client of the API server deletes the object, and the informer
\* takes it out of the indexer. No DeleteFunc is registered, so nothing is
\* enqueued.
ExternalDelete(n) ==
  /\ store[n].exists
  /\ store' = [store EXCEPT ![n] = NoObj]
  /\ cache' = [cache EXCEPT ![n] = NoObj]
  /\ since' = [since EXCEPT ![n] = "none"]
  /\ raced' = [w \in Workers |->
                raced[w] \/ (pc[w] = "patch" /\ req[w].name = n)]
  /\ UNCHANGED <<q, cancelled, pc, wkey, prev, req, res, npatch, ops,
                 late, noted, calls, reported, writes, errors>>

\* The delay of a rate limited re-add has passed.
TimerFire(k) ==
  /\ k \in q.waiting
  /\ q' = QTimer(q, k)
  /\ late' = LateAfterAdd(q, late, k)
  /\ UNCHANGED <<calls, reported, store, cache, cancelled, pc, wkey, prev, req, res, npatch,
                 ops, noted, raced, since, writes, errors>>

\* The context given to Start is cancelled.
Cancel ==
  /\ ~cancelled
  /\ cancelled' = TRUE
  /\ UNCHANGED <<calls, reported, q, store, cache, pc, wkey, prev, req, res, npatch, ops,
                 late, noted, raced, since, writes, errors>>

\* Mutant of StartMayReturn: Start does not wait for the context.
StartReturnsAtOnce == TRUE

\* Start: <-ctx.Done() returns and the deferred ShutDown runs.
StartMayReturn == cancelled
StartReturn ==
  /\ StartMayReturn
  /\ ~q.shuttingDown
  /\ q' = QShutDown(q)
  /\ UNCHANGED <<calls, reported, store, cache, cancelled, pc, wkey, prev, req, res, npatch,
                 ops, late, noted, raced, since, writes, errors>>

\* Mutant of GetItem: Done(key) is called at once instead of deferred.
GetItemDoneEarly(w) ==
  /\ pc[w] = "get"
  /\ QCanGet(q)
  /\ q' = QDone(QGet(q), QGetKey(q))
  /\ wkey' = [wkey EXCEPT ![w] = QGetKey(q)]
  /\ pc' = [pc EXCEPT ![w] = "process"]
  /\ UNCHANGED <<calls, reported, store, cache, cancelled, prev, req, res, npatch, ops, late,
                 noted, raced, since, writes, errors>>

\* processNextWorkItem: Get returned a key. Done is deferred, so the key
\* stays in processing for the whole pass.
GetItem(w) ==
  /\ pc[w] = "get"
  /\ QCanGet(q)
  /\ q' = QGet(q)
  /\ wkey' = [wkey EXCEPT ![w] = QGetKey(q)]
  /\ pc' = [pc EXCEPT ![w] = "process"]
  /\ since' = [n \in Names |->
                IF QGetKey(q) = MetaClusterNamespaceKeyFunc("", n)
                   /\ since[n] = "committed"
                THEN "next" ELSE since[n]]
  /\ UNCHANGED <<calls, reported, store, cache, cancelled, prev, req, res, npatch, ops, late,
                 noted, raced, writes, errors>>

\* Mutant of GetQuit: the worker stops where it is once the queue is shut
\* down, its item unfinished.
GetQuitMidItem(w) ==
  /\ pc[w] # "exited"
  /\ QGetShutdown(q)
  /\ cancelled
  /\ pc' = [pc EXCEPT ![w] = "exited"]
  /\ UNCHANGED <<calls, reported, q, store, cache, cancelled, wkey, prev, req, res, npatch,
                 ops, late, noted, raced, since, writes, errors>>

\* processNextWorkItem: Get returned quit; startWorker returns and
\* wait.Until stops once the context is done.
GetQuit(w) ==
  /\ pc[w] = "get"
  /\ QGetShutdown(q)
  /\ cancelled
  /\ pc' = [pc EXCEPT ![w] = "exited"]
  /\ UNCHANGED <<calls, reported, q, store, cache, cancelled, wkey, prev, req, res, npatch,
                 ops, late, noted, raced, since, writes, errors>>

\* Mutant of OnError: the error branch falls through to Forget.
OnErrorForget(w) ==
  /\ q' = QForget(QAddRateLimited(q, wkey[w]), wkey[w])
  /\ ops' = [ops EXCEPT ![w] = @ \o <<"AddRateLimited", "Forget">>]
  /\ UNCHANGED late

\* Mutant of OnError: the error is reported and the key is not re-added.
OnErrorDrop(w) ==
  /\ q' = q
  /\ ops' = ops
  /\ UNCHANGED late

\* processNextWorkItem, err != nil: AddRateLimited, then return.
OnError(w) ==
  /\ q' = QAddRateLimited(q, wkey[w])
  /\ ops' = [ops EXCEPT ![w] = Append(@, "AddRateLimited")]
  /\ UNCHANGED late

\* Mutant of OnRequeue: the requeue goes through the rate limiter.
OnRequeueRateLimited(w) ==
  /\ q' = QForget(QAddRateLimited(q, wkey[w]), wkey[w])
  /\ ops' = [ops EXCEPT ![w] = @ \o <<"AddRateLimited", "Forget">>]
  /\ UNCHANGED late

\* processNextWorkItem, err == nil and requeue: Add, then Forget.
OnRequeue(w) ==
  /\ q' = QForget(QAdd(q, wkey[w]), wkey[w])
  /\ late' = LateAfterAdd(q, late, wkey[w])
  /\ ops' = [ops EXCEPT ![w] = @ \o <<"Add", "Forget">>]

\* Mutant of OnSuccess: Done is called before Forget instead of deferred.
OnSuccessDoneFirst(w) ==
  /\ q' = QForget(QDone(q, wkey[w]), wkey[w])
  /\ ops' = [ops EXCEPT ![w] = Append(@, "Forget")]
  /\ UNCHANGED late

\* processNextWorkItem, err == nil and no requeue: Forget.
OnSuccess(w) ==
  /\ q' = QForget(q, wkey[w])
  /\ ops' = [ops EXCEPT ![w] = Append(@, "Forget")]
  /\ UNCHANGED late

\* processNextWorkItem from the return of process(ctx, key) to its own
\* return; the deferred Done is still to run.
Return(w, requeue, err) ==
  /\ res' = [res EXCEPT ![w] = [requeue |-> requeue, err |-> err]]
  /\ IF err # "nil" THEN OnError(w)
     ELSE IF requeue THEN OnRequeue(w)
     ELSE OnSuccess(w)
  /\ pc' = [pc EXCEPT ![w] = "done"]
  /\ req' = [req EXCEPT ![w] = NoReq]

\* Mutant of Commit: a pass that has nothing to commit asks for a requeue.
CommitAlwaysRequeue(w, previous, obj) ==
  LET plan == CommitPlan(previous, obj)
  IN /\ prev' = [prev EXCEPT ![w] = previous]
     /\ IF plan.sent
        THEN /\ req' = [req EXCEPT ![w] = plan]
             /\ pc' = [pc EXCEPT ![w] = "patch"]
             /\ UNCHANGED <<q, res, ops, late>>
        ELSE Return(w, TRUE, "nil")

\* process from the lister read on: previous is the object read, obj the
\* deep copy after reconcile.
Commit(w, previous, obj) ==
  LET plan == CommitPlan(previous, obj)
  IN /\ prev' = [prev EXCEPT ![w] = previous]
     /\ IF plan.sent
        THEN /\ req' = [req EXCEPT ![w] = plan]
             /\ pc' = [pc EXCEPT ![w] = "patch"]
             /\ UNCHANGED <<q, res, ops, late>>
        ELSE Return(w, FALSE, "nil")

\* A reconcile function that also reports the shard ready in its status:
\* the status commit of process is reached only with such a reconciler.
reconcileStatus(o) == [reconcile(o) EXCEPT !.status = "ready"]

\* Mutant of Process: a key whose object is not found is retried.
ProcessNotFoundRetried(w) ==
  /\ pc[w] = "process"
  /\ LET sp == SplitMetaNamespaceKey(wkey[w])
     IN \/ /\ ~cache[sp.name].exists
           /\ calls' = [calls EXCEPT ![w].lister = "notfound"]
           /\ Return(w, TRUE, "notfound")
           /\ UNCHANGED prev
        \/ /\ cache[sp.name].exists
           /\ calls' = [calls EXCEPT ![w] =
                          [lister |-> "found", reconcile |-> 1]]
           /\ Commit(w, cache[sp.name], reconcile(cache[sp.name]))
  /\ UNCHANGED <<reported, store, cache, cancelled, wkey, npatch, noted, raced,
                 since, writes, errors>>

\* Mutant of Process: the namespace of the key is not looked at.
ProcessAnyNamespace(w) ==
  /\ pc[w] = "process"
  /\ LET sp == SplitMetaNamespaceKey(wkey[w])
     IN IF sp.err
        THEN Return(w, FALSE, "nil") /\ UNCHANGED <<prev, calls>>
        ELSE \/ /\ ~cache[sp.name].exists
                /\ calls' = [calls EXCEPT ![w].lister = "notfound"]
                /\ Return(w, FALSE, "nil")
                /\ UNCHANGED prev
             \/ /\ cache[sp.name].exists
                /\ calls' = [calls EXCEPT ![w] =
                               [lister |-> "found", reconcile |-> 1]]
                /\ Commit(w, cache[sp.name], reconcile(cache[sp.name]))
  /\ UNCHANGED <<reported, store, cache, cancelled, wkey, npatch, noted, raced,
                 since, writes, errors>>

\* process up to the Patch call; plugged says that the reconcile function
\* is reconcileStatus instead of the controller's own, faulty that the
\* lister may fail with an error other than not found.
ProcessWith(w, plugged, faulty) ==
  /\ pc[w] = "process"
  /\ LET sp == SplitMetaNamespaceKey(wkey[w])
     IN IF sp.err \/ sp.namespace # ""
        THEN Return(w, FALSE, "nil") /\ UNCHANGED <<prev, calls, errors>>
        ELSE \/ /\ faulty
                /\ errors < MaxErrors
                /\ errors' = errors + 1
                /\ calls' = [calls EXCEPT ![w].lister = "error"]
                /\ Return(w, TRUE, "lister")
                /\ UNCHANGED prev
             \/ /\ ~cache[sp.name].exists
                /\ calls' = [calls EXCEPT ![w].lister = "notfound"]
                /\ Return(w, FALSE, "nil")
                /\ UNCHANGED <<prev, errors>>
             \/ /\ cache[sp.name].exists
                /\ calls' = [calls EXCEPT ![w] =
                               [lister |-> "found", reconcile |-> 1]]
                /\ Commit(w, cache[sp.name],
                          IF plugged THEN reconcileStatus(cache[sp.name])
                          ELSE reconcile(cache[sp.name]))
                /\ UNCHANGED errors
  /\ UNCHANGED <<reported, store, cache, cancelled, wkey, npatch, noted,
                 raced, since, writes>>

Process(w) == ProcessWith(w, FALSE, TRUE)

\* process around a reconcile function that also sets the status.
ProcessPluggable(w) == ProcessWith(w, TRUE, TRUE)

\* process with a lister that answers from the indexer: the object, or not
\* found.
ProcessSound(w) == ProcessWith(w, FALSE, FALSE)

\* The errors a Patch call can fail with before the server answers: a
\* transport failure, and, the call being made with the worker's context
\* (which is the one given to Start), the cancellation of that context.
PatchFailures == {"transport"} \cup (IF cancelled THEN {"canceled"} ELSE {})

\* process: the Patch call. It fails in transport or is interrupted by the
\* cancellation of its context, or the server answers not found or
\* conflict, or applies it.
PatchCall(w) ==
  /\ pc[w] = "patch"
  /\ npatch' = [npatch EXCEPT ![w] = @ + 1]
  /\ LET r == req[w]
         o == store[r.name]
     IN \/ /\ errors < MaxErrors
           /\ errors' = errors + 1
           /\ \E e \in PatchFailures : Return(w, TRUE, e)
           /\ UNCHANGED <<store, since>>
        \/ /\ ~o.exists
           /\ Return(w, TRUE, "notfound")
           /\ UNCHANGED <<store, since, errors>>
        \/ /\ o.exists
           /\ PatchConflicts(o, r.patch)
           /\ Return(w, TRUE, "conflict")
           /\ UNCHANGED <<store, since, errors>>
        \/ /\ o.exists
           /\ ~PatchConflicts(o, r.patch)
           /\ store' = [store EXCEPT ![r.name] = PatchApply(o, r.patch, r.sub)]
           /\ since' = [since EXCEPT ![r.name] = "committed"]
           /\ Return(w, TRUE, "nil")
           /\ UNCHANGED errors
  /\ UNCHANGED <<calls, reported, cache, cancelled, wkey, prev, noted, raced, writes>>

\* Mutant of DoneItem: processNextWorkItem returns without calling Done.
DoneItemSkipsDone(w) ==
  /\ pc[w] = "done"
  /\ pc' = [pc EXCEPT ![w] = "get"]
  /\ wkey' = [wkey EXCEPT ![w] = NoKey]
  /\ res' = [res EXCEPT ![w] = NoRes]
  /\ npatch' = [npatch EXCEPT ![w] = 0]
  /\ ops' = [ops EXCEPT ![w] = <<>>]
  /\ prev' = [prev EXCEPT ![w] = NoObj]
  /\ raced' = [raced EXCEPT ![w] = FALSE]
  /\ calls' = [calls EXCEPT ![w] = NoCalls]
  /\ UNCHANGED <<reported, q, store, cache, cancelled, req, late, noted, since, writes,
                 errors>>

\* processNextWorkItem returns: the deferred Done runs.
DoneItem(w) ==
  /\ pc[w] = "done"
  /\ q' = QDone(q, wkey[w])
  /\ pc' = [pc EXCEPT ![w] = "get"]
  /\ wkey' = [wkey EXCEPT ![w] = NoKey]
  /\ res' = [res EXCEPT ![w] = NoRes]
  /\ npatch' = [npatch EXCEPT ![w] = 0]
  /\ ops' = [ops EXCEPT ![w] = <<>>]
  /\ late' = [late EXCEPT ![wkey[w]] = 0]
  /\ noted' = [noted EXCEPT ![wkey[w]] = FALSE]
  /\ since' = [n \in Names |->
                IF wkey[w] = MetaClusterNamespaceKeyFunc("", n)
                   /\ since[n] = "next"
                THEN "none" ELSE since[n]]
  /\ prev' = [prev EXCEPT ![w] = NoObj]
  /\ raced' = [raced EXCEPT ![w] = FALSE]
  /\ calls' = [calls EXCEPT ![w] = NoCalls]
  /\ UNCHANGED <<reported, store, cache, cancelled, req, writes, errors>>

\* What a panic inside process leaves of the worker's pass: the pass has no
\* result, and the worker holds no key.
Unwound(w) ==
  /\ wkey' = [wkey EXCEPT ![w] = NoKey]
  /\ res' = [res EXCEPT ![w] = NoRes]
  /\ req' = [req EXCEPT ![w] = NoReq]
  /\ npatch' = [npatch EXCEPT ![w] = 0]
  /\ ops' = [ops EXCEPT ![w] = <<>>]
  /\ late' = [late EXCEPT ![wkey[w]] = 0]
  /\ noted' = [noted EXCEPT ![wkey[w]] = FALSE]
  /\ prev' = [prev EXCEPT ![w] = NoObj]
  /\ raced' = [raced EXCEPT ![w] = FALSE]
  /\ calls' = [calls EXCEPT ![w] = NoCalls]
  /\ since' = [n \in Names |->
                IF wkey[w] = MetaClusterNamespaceKeyFunc("", n)
                   /\ since[n] = "next"
                THEN "none" ELSE since[n]]

\* Where the panic ends: the crash handler of wait.Until logs it and panics
\* again, which ends the process with all its workers, or (crashing
\* disabled) returns, and wait.Until runs startWorker again unless the
\* context is done.
AfterPanic(w) ==
  \/ pc' = [v \in Workers |-> "crashed"]
  \/ pc' = [pc EXCEPT ![w] = IF cancelled THEN "exited" ELSE "get"]

\* Mutant of Panic: Done is called at the end of processNextWorkItem
\* instead of deferred, so a panic skips it.
PanicSkipsDone(w) ==
  /\ pc[w] \in {"process", "patch"}
  /\ errors < MaxErrors
  /\ errors' = errors + 1
  /\ q' = q
  /\ Unwound(w)
  /\ AfterPanic(w)
  /\ UNCHANGED <<reported, store, cache, cancelled, writes>>

\* processNextWorkItem: process panics. The stack unwinds through
\* processNextWorkItem, which recovers nothing: its deferred Done(key) runs,
\* and none of AddRateLimited, Add and Forget is reached.
Panic(w) ==
  /\ pc[w] \in {"process", "patch"}
  /\ errors < MaxErrors
  /\ errors' = errors + 1
  /\ q' = QDone(q, wkey[w])
  /\ Unwound(w)
  /\ AfterPanic(w)
  /\ UNCHANGED <<reported, store, cache, cancelled, writes>>

\* ------------------------------------------------- the specification
Init ==
  /\ q = NewQueue
  /\ store = [n \in Names |-> Obj(n, 1, NilLabels, "")]
  /\ cache = [n \in Names |-> NoObj]
  /\ cancelled = FALSE
  /\ pc = [w \in Workers |-> "get"]
  /\ wkey = [w \in Workers |-> NoKey]
  /\ prev = [w \in Workers |-> NoObj]
  /\ req = [w \in Workers |-> NoReq]
  /\ res = [w \in Workers |-> NoRes]
  /\ npatch = [w \in Workers |-> 0]
  /\ ops = [w \in Workers |-> <<>>]
  /\ late = [k \in AllKeys |-> 0]
  /\ noted = [k \in AllKeys |-> FALSE]
  /\ raced = [w \in Workers |-> FALSE]
  /\ since = [n \in Names |-> "none"]
  /\ calls = [w \in Workers |-> NoCalls]
  /\ reported = {}
  /\ writes = 0
  /\ errors = 0

Next ==
  \/ \E n \in Names : Notify(n)
  \/ \E n \in Names : ExternalWrite(n)
  \/ \E n \in Names : ExternalDelete(n)
  \/ \E k \in AllKeys : TimerFire(k)
  \/ Cancel
  \/ StartReturn
  \/ \E w \in Workers : GetItem(w)
  \/ \E w \in Workers : GetQuit(w)
  \/ \E w \in Workers : Process(w)
  \/ \E w \in Workers : PatchCall(w)
  \/ \E w \in Workers : DoneItem(w)

Spec == Init /\ [][Next]_vars

\* The same controller around a reconcile function that may change the
\* status as well.
NextPluggable ==
  \/ \E n \in Names : Notify(n)
  \/ \E n \in Names : ExternalWrite(n)
  \/ \E n \in Names : ExternalDelete(n)
  \/ \E k \in AllKeys : TimerFire(k)
  \/ Cancel
  \/ StartReturn
  \/ \E w \in Workers : GetItem(w)
  \/ \E w \in Workers : GetQuit(w)
  \/ \E w \in Workers : ProcessPluggable(w)
  \/ \E w \in Workers : PatchCall(w)
  \/ \E w \in Workers : DoneItem(w)

SpecPluggable == Init /\ [][NextPluggable]_vars

\* The controller with passes that may panic.
NextCrash ==
  \/ Next
  \/ \E w \in Workers : Panic(w)

SpecCrash == Init /\ [][NextCrash]_vars

\* The controller while its context is not cancelled: the informer, the
\* deletion of the object, the queue's timers and the workers.
NextLive ==
  \/ \E n \in Names : Notify(n)
  \/ \E n \in Names : ExternalDelete(n)
  \/ \E k \in AllKeys : TimerFire(k)
  \/ \E w \in Workers : GetItem(w)
  \/ \E w \in Workers : Process(w)
  \/ \E w \in Workers : PatchCall(w)
  \/ \E w \in Workers : DoneItem(w)

\* Each worker is a goroutine that keeps running, and each delayed re-add
\* is a timer that fires.
Fairness ==
  /\ \A w \in Workers :
       /\ WF_vars(GetItem(w))
       /\ WF_vars(Process(w))
       /\ WF_vars(PatchCall(w))
       /\ WF_vars(DoneItem(w))
  /\ \A k \in AllKeys : WF_vars(TimerFire(k))

SpecLive == Init /\ [][NextLive]_vars /\ Fairness

\* The controller while its context is not cancelled and no other client
\* writes, with a lister that does not fail: the only failures are those
\* of Patch calls.
NextRetry ==
  \/ \E n \in Names : Notify(n)
  \/ \E k \in AllKeys : TimerFire(k)
  \/ \E w \in Workers : GetItem(w)
  \/ \E w \in Workers : ProcessSound(w)
  \/ \E w \in Workers : PatchCall(w)
  \/ \E w \in Workers : DoneItem(w)

SpecRetry == Init /\ [][NextRetry]_vars

\* The informer delivers the add or update notification of a change that
\* the indexer has not seen yet.
NotifyChange(n) ==
  /\ cache[n] # store[n]
  /\ Notify(n)

\* The controller left alone in the end: its context is not cancelled, the
\* other clients stop writing after MaxWrites writes, and the informer
\* notifies of changes only.
NextConverge ==
  \/ \E n \in Names : NotifyChange(n)
  \/ \E n \in Names : ExternalWrite(n)
  \/ \E k \in AllKeys : TimerFire(k)
  \/ \E w \in Workers : GetItem(w)
  \/ \E w \in Workers : Process(w)
  \/ \E w \in Workers : PatchCall(w)
  \/ \E w \in Workers : DoneItem(w)

\* The workers and timers of Fairness, and an informer that delivers every
\* change.
FairnessConverge ==
  /\ Fairness
  /\ \A n \in Names : WF_vars(NotifyChange(n))

SpecConverge == Init /\ [][NextConverge]_vars /\ FairnessConverge

\* The queue's rate limiter driven on its own, by callers that fail and
\* succeed in any order on two keys.
LimiterKeys == Keys \cup {MetaClusterNamespaceKeyFunc("ns", "s1")}

LimiterAddRateLimited(k) ==
  /\ q.failures[k] < MaxFailures
  /\ q' = QAddRateLimited(q, k)
  /\ UNCHANGED <<store, cache, cancelled, pc, wkey, prev, req, res, npatch,
                 ops, late, noted, raced, since, calls, reported, writes,
                 errors>>

LimiterForget(k) ==
  /\ q.failures[k] > 0
  /\ q' = QForget(q, k)
  /\ UNCHANGED <<store, cache, cancelled, pc, wkey, prev, req, res, npatch,
                 ops, late, noted, raced, since, calls, reported, writes,
                 errors>>

NextLimiter ==
  \/ \E k \in LimiterKeys : LimiterAddRateLimited(k)
  \/ \E k \in LimiterKeys : LimiterForget(k)
  \/ \E k \in LimiterKeys : TimerFire(k)

SpecLimiter == Init /\ [][NextLimiter]_vars

\* The controller with an informer that also delivers malformed objects,
\* while its context is not cancelled.
NextKeys ==
  \/ \E n \in Names : Notify(n)
  \/ \E n \in Names : ExternalDelete(n)
  \/ \E o \in MalformedObjects : NotifyMalformed(o)
  \/ \E k \in AllKeys : TimerFire(k)
  \/ \E w \in Workers : GetItem(w)
  \/ \E w \in Workers : Process(w)
  \/ \E w \in Workers : PatchCall(w)
  \/ \E w \in Workers : DoneItem(w)

SpecKeys == Init /\ [][NextKeys]_vars

\* ------------------------------------------------- properties
\* A worker is between Get() returning its key and Done(key).
Holding(w) == pc[w] \in {"process", "patch", "done"}

\* C1: per-key mutual exclusion: no two workers are between Get() returning
\* the same key and Done of that key, whatever Add calls (notifications, the
\* holder's own Add or AddRateLimited, delayed re-adds) arrive meanwhile.
C1_MutualExclusion ==
  \A w1, w2 \in Workers :
    w1 # w2 /\ Holding(w1) /\ Holding(w2) => wkey[w1] # wkey[w2]

\* A worker holds a key that it re-added itself and that a notification
\* re-added too, while the other worker waits in Get on the open queue.
C1_Witness ==
  \E w1, w2 \in Workers :
    /\ w1 # w2
    /\ pc[w1] = "done" /\ "Add" \in {ops[w1][i] : i \in 1..Len(ops[w1])}
    /\ wkey[w1] \in q.dirty /\ noted[wkey[w1]]
    /\ pc[w2] = "get" /\ ~q.shuttingDown

\* C2, the state part: a key is queued at most once however often it was
\* added, and a key marked dirty is queued or in processing (not lost).
C2_NoDuplicate ==
  \A k \in Keys :
    /\ Count(q.queue, k) <= 1
    /\ k \in q.dirty => InQueue(q, k) \/ k \in q.processing

\* C2: deduplication without loss: pending Adds collapse to one entry, and
\* one or more Adds of a key in processing make Done queue it exactly once.
C2_Dedup ==
  /\ []C2_NoDuplicate
  /\ [][\A w \in Workers :
          pc[w] = "done" /\ pc'[w] = "get" /\ late[wkey[w]] >= 1
          => Count(q'.queue, wkey[w]) = 1]_vars

\* Several Adds reached the queue while the key was being processed, and
\* its worker is about to call Done.
C2_Witness ==
  \E w \in Workers :
    pc[w] = "done" /\ late[wkey[w]] = 2 /\ ~InQueue(q, wkey[w])

\* C3, the state part: after process returned an error the pass has called
\* AddRateLimited once and nothing else, the retry count is positive and the
\* key waits for its delay (or was added when the delay passed).
C3_ErrorOps ==
  \A w \in Workers :
    pc[w] = "done" /\ res[w].err # "nil" =>
      /\ ops[w] = <<"AddRateLimited">>
      /\ q.failures[wkey[w]] >= 1
      /\ wkey[w] \in q.waiting \/ wkey[w] \in q.dirty \/ q.shuttingDown

\* C3: error outcome of a pass: AddRateLimited exactly once, no Forget and
\* no Add, and the key's retry count goes up by one.
C3_ErrorOutcome ==
  /\ []C3_ErrorOps
  /\ [][\A w \in Workers :
          pc[w] # "done" /\ pc'[w] = "done" /\ res'[w].err # "nil"
          => q'.failures[wkey[w]] = q.failures[wkey[w]] + 1]_vars

\* A Patch failed for the second time in a row: the count was kept.
C3_Witness ==
  \E w \in Workers :
    /\ pc[w] = "done" /\ res[w].err = "transport"
    /\ q.failures[wkey[w]] = 2 /\ wkey[w] \in q.waiting

\* C4, the state part: after a pass without error the worker has called Add
\* and Forget (requeue) or Forget alone (no requeue), never AddRateLimited,
\* and the retry count is cleared.
C4_SuccessOps ==
  \A w \in Workers :
    pc[w] = "done" /\ res[w].err = "nil" =>
      /\ ops[w] = IF res[w].requeue THEN <<"Add", "Forget">> ELSE <<"Forget">>
      /\ q.failures[wkey[w]] = 0

\* C4 as stated: after a pass without error and without requeue the key
\* leaves the queue unless a notification re-added it.
C4_Original ==
  /\ []C4_SuccessOps
  /\ [][\A w \in Workers :
          /\ pc[w] = "done" /\ pc'[w] = "get"
          /\ res[w].err = "nil" /\ ~res[w].requeue
          /\ ~noted[wkey[w]]
          => ~InQueue(q', wkey[w])]_vars

\* C4, amended: after a pass without error and without requeue the key
\* leaves the queue unless an Add from outside the worker (a notification
\* or a delayed re-add of an earlier failure) reached the queue meanwhile.
C4_SuccessOutcome ==
  /\ []C4_SuccessOps
  /\ [][\A w \in Workers :
          /\ pc[w] = "done" /\ pc'[w] = "get"
          /\ res[w].err = "nil" /\ ~res[w].requeue
          /\ late[wkey[w]] = 0
          => ~InQueue(q', wkey[w]) /\ wkey[w] \notin q'.processing]_vars

\* A pass succeeded without requeue while the delayed re-add of an earlier
\* failure fired: no notification came, and the key is marked dirty.
C4_Witness ==
  \E w \in Workers :
    /\ pc[w] = "done" /\ res[w].err = "nil" /\ ~res[w].requeue
    /\ late[wkey[w]] >= 1 /\ ~noted[wkey[w]]

\* The object a worker's key names.
NameOf(w) == SplitMetaNamespaceKey(wkey[w]).name

\* C5: every patch the commit step submits carries the snapshot's UID and
\* ResourceVersion as preconditions.
C5_PatchCarriesPreconditions ==
  \A w \in Workers :
    pc[w] = "patch" =>
      /\ "uid" \in DOMAIN req[w].patch
      /\ "resourceVersion" \in DOMAIN req[w].patch
      /\ req[w].patch["uid"] = Present(prev[w].uid)
      /\ req[w].patch["resourceVersion"] = Present(prev[w].rv)

\* C6: no blind overwrite: a Patch sent after another client wrote the
\* object since the worker's read leaves the stored object alone and ends
\* the pass with an error and AddRateLimited.
C6_NoBlindOverwrite ==
  [][\A w \in Workers :
       pc[w] = "patch" /\ pc'[w] = "done" /\ raced[w]
       => /\ store' = store
          /\ res'[w].err # "nil"
          /\ ops'[w] = <<"AddRateLimited">>]_vars

C8_NoOpNoPatch ==
  \A w \in Workers :
    /\ pc[w] = "done" /\ prev[w].exists
       /\ LabelsEqual(prev[w].labels, reconcile(prev[w]).labels)
       /\ prev[w].status = reconcile(prev[w]).status
       => npatch[w] = 0 /\ res[w] = [requeue |-> FALSE, err |-> "nil"]
    /\ pc[w] = "patch" =>
         /\ \/ ~LabelsEqual(prev[w].labels, reconcile(prev[w]).labels)
            \/ prev[w].status # reconcile(prev[w]).status
         /\ DOMAIN req[w].patch # {}

\* The snapshot already carried the shard label: the pass made no Patch.
C8_Witness ==
  \E w \in Workers :
    /\ pc[w] = "done" /\ prev[w].exists /\ npatch[w] = 0
    /\ ShardLabel \in DOMAIN prev[w].labels.kv
    /\ prev[w].labels.kv[ShardLabel] = prev[w].name
    /\ res[w] = [requeue |-> FALSE, err |-> "nil"]

\* C9 as stated: the pass after a pass that committed, with no write by
\* another client in between, makes no Patch call.
C9_Original ==
  \A w \in Workers :
    Holding(w) /\ since[NameOf(w)] = "next"
    => pc[w] # "patch" /\ npatch[w] = 0

\* C9, amended: the pass after a pass that committed, with no write by
\* another client in between, makes no Patch call when the snapshot it read
\* from the cache is the committed object.
C9_SecondPassNoOp ==
  \A w \in Workers :
    Holding(w) /\ since[NameOf(w)] = "next"
    /\ prev[w].exists /\ prev[w] = store[NameOf(w)]
    => pc[w] # "patch" /\ npatch[w] = 0

\* The pass after a commit read the committed object and made no Patch.
C9_Witness ==
  \E w \in Workers :
    /\ pc[w] = "done" /\ since[NameOf(w)] = "next"
    /\ prev[w].exists /\ prev[w] = store[NameOf(w)]
    /\ npatch[w] = 0 /\ res[w] = [requeue |-> FALSE, err |-> "nil"]

\* C10, the state part: the queue is shut down only after the context was
\* cancelled, and a worker in Get on the shut down queue is released.
C10_ShutdownState ==
  q.shuttingDown =>
    /\ cancelled
    /\ \A w \in Workers : pc[w] = "get" => ENABLED GetQuit(w)

C11_Original ==
  /\ \A w \in Workers : pc[w] = "done" => res[w].err # "canceled"
  /\ \A w \in Workers : pc[w] = "exited" => wkey[w] = NoKey

\* C11, the state part: a worker that exited holds no key, a key in
\* processing has a worker that holds it, and a worker holding a key can
\* take its next step whether or not the context is cancelled and the queue
\* shut down.
C11_DrainState ==
  /\ \A w \in Workers : pc[w] = "exited" => wkey[w] = NoKey
  /\ \A k \in q.processing : \E w \in Workers : Holding(w) /\ wkey[w] = k
  /\ \A w \in Workers :
       Holding(w) => ENABLED (Process(w) \/ PatchCall(w) \/ DoneItem(w))

\* C11, amended: the worker loop does not abort a pass on cancellation: a
\* worker exits only from Get, after Done(key) of its last item, and a
\* Patch made after the cancellation either is interrupted (the pass then
\* ends as an error pass, with AddRateLimited) or goes through.
C11_GracefulDrain ==
  /\ []C11_DrainState
  /\ [][\A w \in Workers :
          /\ pc'[w] = "exited" /\ pc[w] # "exited" => pc[w] = "get"
          /\ Holding(w) => pc'[w] \in {"process", "patch", "done", "get"}
          /\ pc[w] = "patch" /\ pc'[w] = "done" /\ res'[w].err = "canceled"
             => cancelled /\ store' = store
                /\ ops'[w] = <<"AddRateLimited">>]_vars

\* The context was cancelled and the queue shut down while a worker was in
\* its Patch call; the call went through and the pass is about to call Done.
C11_Witness ==
  \E w \in Workers :
    /\ pc[w] = "done" /\ npatch[w] = 1 /\ res[w].err = "nil"
    /\ q.shuttingDown /\ cancelled
    /\ \E w2 \in Workers : pc[w2] = "exited"

\* A worker's pass ends in a panic in this step.
Panics(w) == pc[w] \in {"process", "patch"} /\ wkey'[w] = NoKey

\* C12 as stated: worker crash containment: a panic in a pass is recovered
\* at the worker boundary, the other workers and the process keep running,
\* and the key is re-queued for retry with AddRateLimited.
C12_Original ==
  [][\A w \in Workers :
       Panics(w) =>
         /\ \A v \in Workers : pc'[v] # "crashed"
         /\ q'.failures[wkey[w]] = q.failures[wkey[w]] + 1
         /\ wkey[w] \in q'.waiting \/ q.shuttingDown]_vars

\* C12, amended: a panic in a pass after Get() returned key k runs the
\* deferred Done(k) and nothing else: k leaves processing, it is queued
\* again only if an Add reached the queue during the pass, its retry count
\* and the delayed re-adds are as they were (no AddRateLimited, no Forget).
C12_PanicReleasesKey ==
  [][\A w \in Workers :
       Panics(w) =>
         /\ wkey[w] \notin q'.processing
         /\ InQueue(q', wkey[w]) <=> wkey[w] \in q.dirty
         /\ q'.failures = q.failures
         /\ q'.waiting = q.waiting]_vars

\* A pass panicked and took the process down: the object is in the cache
\* without its shard label, and its key is neither queued, nor in
\* processing, nor waiting for a delayed re-add.
C12_Witness ==
  /\ \A w \in Workers : pc[w] = "crashed"
  /\ \E n \in Names :
       /\ cache[n].exists /\ cache[n].labels.nil
       /\ q.queue = <<>> /\ q.processing = {} /\ q.waiting = {}
       /\ q.failures[MetaClusterNamespaceKeyFunc("", n)] = 0

\* A worker is at the start of a pass for key k, just delivered by Get().
Delivered(k) ==
  \E w \in Workers : pc[w] = "process" /\ wkey[w] = k /\ k \notin q.dirty

\* C13: liveness of re-examination. With fair workers and timers and no
\* shutdown, a key that was added (by a notification, or marked for
\* redelivery while in processing) is eventually delivered by Get(), a key
\* delivered has its pass run to the end, and a key whose pass failed is
\* eventually delivered again.
C13_EventuallyReexamined ==
  \A k \in Keys :
    /\ (k \in q.dirty) ~> Delivered(k)
    /\ Delivered(k) ~> (\E w \in Workers : pc[w] = "done" /\ wkey[w] = k)
    /\ (\E w \in Workers : pc[w] = "done" /\ wkey[w] = k /\ res[w].err # "nil")
         ~> Delivered(k)

\* A key whose pass failed is in a pass again, its delay having passed.
C13_Witness ==
  \E w \in Workers :
    /\ pc[w] = "process" /\ q.failures[wkey[w]] >= 1
    /\ wkey[w] \notin q.waiting /\ wkey[w] \notin q.dirty

\* C14, the state part: a pass whose lister read answered not found has
\* called neither reconcile nor Patch, has returned (false, nil) and has
\* called Forget and nothing else on the queue.
C14_NotFoundPass ==
  \A w \in Workers :
    calls[w].lister = "notfound" =>
      /\ pc[w] = "done"
      /\ calls[w].reconcile = 0 /\ npatch[w] = 0
      /\ res[w] = [requeue |-> FALSE, err |-> "nil"]
      /\ ops[w] = <<"Forget">>
      /\ q.failures[wkey[w]] = 0

\* C14: not found is a terminal success: when the lister has no object for
\* the key of a pass, the pass ends as above in that one step, and the
\* worker's calls leave the key out of the queue and of the delayed re-adds
\* unless it was in them before.
C14_NotFoundIsSuccess ==
  /\ []C14_NotFoundPass
  /\ [][\A w \in Workers :
          /\ pc[w] = "process" /\ pc'[w] # "process"
          /\ SplitMetaNamespaceKey(wkey[w]).namespace = ""
          /\ ~cache[NameOf(w)].exists
          /\ calls'[w].lister # "error"
          => /\ calls'[w].lister = "notfound"
             /\ pc'[w] = "done"
             /\ q'.dirty = q.dirty /\ q'.queue = q.queue
             /\ q'.waiting = q.waiting]_vars

\* The object was deleted after its key was queued: the pass found nothing.
C14_Witness ==
  \E w \in Workers :
    /\ pc[w] = "done" /\ calls[w].lister = "notfound"
    /\ ~store[NameOf(w)].exists
    /\ wkey[w] \notin q.dirty /\ wkey[w] \notin q.waiting

\* The keys that process rejects: they do not split, or name a namespace.
InvalidKey(k) ==
  SplitMetaNamespaceKey(k).err \/ SplitMetaNamespaceKey(k).namespace # ""

\* C15, the state part: an object reported for want of a key has no key in
\* the queue, and a pass for an invalid key has read no snapshot, called
\* neither reconcile nor Patch, and has called Forget and nothing else.
C15_InvalidKeyPass ==
  /\ \A o \in reported : ~o.meta
  /\ \A w \in Workers :
       Holding(w) /\ InvalidKey(wkey[w]) /\ pc[w] # "process" =>
         /\ pc[w] = "done"
         /\ calls[w] = NoCalls /\ npatch[w] = 0
         /\ res[w] = [requeue |-> FALSE, err |-> "nil"]
         /\ ops[w] = <<"Forget">>

\* C15: malformed identities are dropped, not retried: a notification
\* without a key is reported and leaves the queue as it is, and a pass for
\* an invalid key ends in one step with Forget alone, which neither queues
\* the key nor schedules a delayed re-add.
C15_MalformedDropped ==
  /\ []C15_InvalidKeyPass
  /\ [][reported' # reported => q' = q]_vars
  /\ [][\A w \in Workers :
          pc[w] = "process" /\ InvalidKey(wkey[w]) /\ pc'[w] # "process"
          => /\ pc'[w] = "done"
             /\ q'.queue = q.queue /\ q'.dirty = q.dirty
             /\ q'.waiting = q.waiting]_vars

\* An object without a key was reported, and the pass for a key that does
\* not split has ended with Forget.
C15_Witness ==
  /\ reported # {}
  /\ \E w \in Workers :
       /\ pc[w] = "done" /\ SplitMetaNamespaceKey(wkey[w]).err
       /\ ops[w] = <<"Forget">>
       /\ wkey[w] \notin q.dirty /\ wkey[w] \notin q.waiting

\* C16, the state part: the delay of a pending re-add is positive, at most
\* the maximum delay, and the base delay doubled a whole number of times or
\* the maximum.
C16_DelayRange ==
  \A k \in AllKeys :
    k \in q.waiting =>
      /\ BaseDelay <= q.delay[k] /\ q.delay[k] <= MaxDelay
      /\ \E n \in 0..MaxFailures + 1 : q.delay[k] = ItemBackoff(n)

NoLabelsSnapshot(w) == prev[w].exists /\ DOMAIN prev[w].labels.kv = {}

\* C17, the state part: a pass whose snapshot has no labels submits one
\* Patch, on the main resource (not the status subresource), made of the
\* labels alone, and these are the shard label with the object's name.
C17_LabelPatch ==
  \A w \in Workers :
    NoLabelsSnapshot(w) =>
      /\ pc[w] = "patch" =>
           /\ npatch[w] = 0
           /\ req[w].name = prev[w].name /\ req[w].sub = ""
           /\ DOMAIN req[w].patch = {"labels"}
           /\ req[w].patch["labels"] =
                Present([k \in {ShardLabel} |-> prev[w].name])
      /\ pc[w] = "done" => npatch[w] = 1

\* C17: Scenario A for every object: the one Patch of a pass whose snapshot
\* has no labels, once applied, leaves the stored status as it was and the
\* stored shard label equal to the object's name.
C17_StampsIdentityLabel ==
  /\ []C17_LabelPatch
  /\ [][\A w \in Workers :
          /\ NoLabelsSnapshot(w)
          /\ pc[w] = "patch" /\ pc'[w] = "done" /\ res'[w].err = "nil"
          => /\ store'[NameOf(w)].status = store[NameOf(w)].status
             /\ store'[NameOf(w)].labels.kv[ShardLabel] = NameOf(w)]_vars

\* The pass of an object read without labels has made its one Patch, and
\* the stored object carries the label and the status another client set.
C17_Witness ==
  \E w \in Workers :
    /\ NoLabelsSnapshot(w) /\ pc[w] = "done"
    /\ npatch[w] = 1 /\ res[w] = [requeue |-> TRUE, err |-> "nil"]
    /\ store[NameOf(w)].exists /\ store[NameOf(w)].status = "ready"
    /\ store[NameOf(w)].labels.kv = [k \in {ShardLabel} |-> NameOf(w)]

\* C18: Scenario C for every key: a Patch that fails in transport for a key
\* without earlier failures ends its pass with AddRateLimited alone, which
\* counts one failure and schedules one re-add after a positive delay
\* without queueing the key at once; the count is cleared by nothing but
\* the Forget at the end of a pass without error; and the pass whose Patch
\* then succeeds calls Forget, after its Add.
C18_RetryThenForget ==
  [][\A w \in Workers :
       /\ /\ pc[w] = "patch" /\ pc'[w] = "done"
          /\ res'[w].err = "transport"
          /\ q.failures[wkey[w]] = 0 /\ ~q.shuttingDown
          => /\ ops'[w] = <<"AddRateLimited">>
             /\ q'.failures[wkey[w]] = 1
             /\ wkey[w] \in q'.waiting /\ q'.delay[wkey[w]] > 0
             /\ q'.queue = q.queue /\ q'.dirty = q.dirty
       /\ /\ pc[w] = "patch" /\ pc'[w] = "done"
          /\ res'[w].err = "nil"
          /\ q.failures[wkey[w]] = 1
          => /\ ops'[w] = <<"Add", "Forget">>
             /\ q'.failures[wkey[w]] = 0
       /\ \A k \in AllKeys :
            q'.failures[k] < q.failures[k]
            => \E v \in Workers :
                 /\ wkey[v] = k /\ pc[v] \in {"process", "patch"}
                 /\ pc'[v] = "done" /\ res'[v].err = "nil"
                 /\ ops'[v][Len(ops'[v])] = "Forget"]_vars

\* The one failure so far was a Patch failing in transport; the key came
\* back by its delayed re-add, the Patch of this next pass went through,
\* and the pass has called Add and Forget.
C18_Witness ==
  \E w \in Workers :
    /\ errors = 1
    /\ pc[w] = "done" /\ npatch[w] = 1
    /\ res[w] = [requeue |-> TRUE, err |-> "nil"]
    /\ ops[w] = <<"Add", "Forget">>
    /\ q.failures[wkey[w]] = 0 /\ wkey[w] \notin q.waiting
    /\ late[wkey[w]] = 1 /\ ~noted[wkey[w]]

\* C19, the state part: from Get() to Done the key of a worker is marked in
\* processing, and a pass that is about to call Done has returned from
\* process and made its queue calls.
C19_HeldUntilDone ==
  \A w \in Workers :
    /\ Holding(w) => wkey[w] \in q.processing
    /\ pc[w] = "done" => res[w].err # "unset" /\ ops[w] # <<>>
    /\ pc[w] \in {"process", "patch"} => ops[w] = <<>>

\* C19: Done is exactly once and last: every pass, however process
\* returned, ends with the step that calls Done(key); the key leaves
\* processing in that step and in no other; and each Add, AddRateLimited
\* and Forget of the worker comes before it, the key being in processing.
C19_DoneOnceAndLast ==
  /\ []C19_HeldUntilDone
  /\ [][\A w \in Workers :
          /\ Holding(w) /\ pc'[w] \notin {"process", "patch", "done"}
             => /\ pc[w] = "done" /\ pc'[w] = "get"
                /\ wkey[w] \notin q'.processing
          /\ ops'[w] # ops[w] /\ ops'[w] # <<>>
             => wkey[w] \in q.processing /\ wkey[w] \in q'.processing
       ]_vars
  /\ [][\A k \in AllKeys :
          k \in q.processing /\ k \notin q'.processing
          => \E w \in Workers :
               wkey[w] = k /\ pc[w] = "done" /\ pc'[w] = "get"]_vars

\* Two passes are about to call Done, one for a key that is not valid and
\* one that failed; both keys are still in processing.
C19_Witness ==
  \E w1, w2 \in Workers :
    /\ pc[w1] = "done" /\ InvalidKey(wkey[w1]) /\ ops[w1] = <<"Forget">>
    /\ pc[w2] = "done" /\ res[w2].err # "nil"
    /\ ops[w2] = <<"AddRateLimited">>
    /\ {wkey[w1], wkey[w2]} \subseteq q.processing

\* Every stored object carries the shard label with its name, the indexer
\* has caught up, no key is pending, in processing or waiting for a delayed
\* re-add, and every worker waits in Get.
Quiescent ==
  /\ \A n \in Names :
       /\ store[n].exists /\ cache[n] = store[n]
       /\ ShardLabel \in DOMAIN store[n].labels.kv
       /\ store[n].labels.kv[ShardLabel] = n
  /\ q.queue = <<>> /\ q.dirty = {} /\ q.processing = {} /\ q.waiting = {}
  /\ \A w \in Workers : pc[w] = "get"

\* C20: convergence to quiescence: left alone, with fair workers, timers
\* and change notifications and with failures that come to an end, the
\* controller reaches a quiescent state and stays in it for ever: no worker
\* leaves Get again, so no further Patch is submitted.
C20_Converges == <>[]Quiescent

\* The other clients have made their last write and the passes have failed
\* as often as the bound allows: the object is labelled and the controller
\* is quiescent.
C20_Witness == Quiescent /\ errors = MaxErrors /\ writes = MaxWrites

====
